---- MODULE Spec2Model ----
(***************************************************************************)
(* Model of the path-based task manager of atlas-mcp-server:               *)
(* TaskManager.createTask / updateTask / deleteTask (src/src/task-manager  *)
(* .ts) over the TaskStorage contract, updateTask as concurrent requests   *)
(* interleave it at its awaits, and the bulk operation coordinator.        *)
(*                                                                         *)
(* Strings that the code takes apart (paths, names) are sequences of       *)
(* one-character strings, so that split, join and the slug are computed.   *)
(* JavaScript objects are functions whose DOMAIN holds the keys that are   *)
(* present; a key that is undefined is absent.                             *)
(***************************************************************************)
EXTENDS Integers, Sequences, FiniteSets, TLC

VARIABLES
    tasks,      \* the store: path -> Task, DOMAIN = the stored paths
    result,     \* the TaskResponse (or thrown error) of the last call
    changed,    \* the paths whose persisted record the last call wrote or removed
    calls,      \* number of calls made so far
    inflight,   \* the updateTask calls that are suspended at an await: request -> its frame
    storeCalls, \* the store calls the last call issued, in order (recorded where
                \* store calls can fail)
    server,     \* AtlasMcpServer: isShuttingDown, activeRequests, the requests being
                \* handled and the stop() calls
    manager     \* TaskManager's resources: the memory monitor, the caches, the storage
                \* connection

vars == <<tasks, result, changed, calls, inflight, storeCalls, server, manager>>

----------------------------------------------------------------------------
(* Bounds of the model *)

MaxCalls == 4
MaxBatch == 3
MaxPayloadCalls == 3
MaxRequests == 2
MaxConcurrentCalls == 4
MaxStoreSpecCalls == 3

----------------------------------------------------------------------------
(* Strings *)

SEP == "/"

EmptyObj == [k \in {} |-> k]

Has(o, k) == k \in DOMAIN o

\* { ...a, ...b }
Spread(a, b) == [k \in DOMAIN a \cup DOMAIN b |-> IF k \in DOMAIN b THEN b[k] ELSE a[k]]

\* JavaScript truthiness of o[k]: undefined and the empty string are falsy,
\* every array (the empty one too) is truthy.
\* a string kept as a sequence of characters (path, parentPath, name)
TruthyText(o, k) == Has(o, k) /\ o[k] # <<>>

\* a string kept whole (type, status, description, reasoning)
TruthyStr(o, k) == Has(o, k) /\ o[k] # ""

\* s.split('/')
RECURSIVE Split(_)
Split(s) ==
    IF s = <<>> THEN << <<>> >>
    ELSE LET rest == Split(Tail(s)) IN
         IF Head(s) = SEP THEN << <<>> >> \o rest
         ELSE << <<Head(s)>> \o rest[1] >> \o Tail(rest)

\* segments.join('/')
RECURSIVE Join(_)
Join(segments) ==
    IF segments = <<>> THEN <<>>
    ELSE IF Len(segments) = 1 THEN segments[1]
    ELSE segments[1] \o <<SEP>> \o Join(Tail(segments))

LowerLetters == {"a", "b", "m", "x"}
UpperLetters == {"A", "B", "M", "X"}
Digits == {"0", "1"}

\* String.prototype.toLowerCase on one character
LowerChar(c) ==
    CASE c = "A" -> "a" [] c = "B" -> "b" [] c = "M" -> "m" [] c = "X" -> "x"
      [] OTHER -> c

ToLowerCase(s) == [i \in 1..Len(s) |-> LowerChar(s[i])]

\* s.replace(/[^a-z0-9]+/g, '-'): every maximal run of characters outside
\* a-z0-9 becomes one hyphen.
RECURSIVE ReplaceNonAlnumRuns(_, _)
ReplaceNonAlnumRuns(s, inRun) ==
    IF s = <<>> THEN <<>>
    ELSE IF Head(s) \in LowerLetters \cup Digits
         THEN <<Head(s)>> \o ReplaceNonAlnumRuns(Tail(s), FALSE)
         ELSE IF inRun THEN ReplaceNonAlnumRuns(Tail(s), TRUE)
              ELSE <<"-">> \o ReplaceNonAlnumRuns(Tail(s), TRUE)

\* the pattern ^[a-zA-Z0-9_.-]+(?:/[a-zA-Z0-9_.-]+)*$ : the characters of a segment
PathChars == LowerLetters \cup UpperLetters \cup Digits \cup {"_", ".", "-"}

MAX_PATH_DEPTH == 3

\* validateTaskPath: allowed characters, no empty segment, depth at most the maximum
validateTaskPath(path) ==
    LET segs == Split(path) IN
    IF \E i \in 1..Len(segs) : segs[i] = <<>>
        THEN [valid |-> FALSE, error |-> "empty segment"]
    ELSE IF \E i \in 1..Len(segs) : \E j \in 1..Len(segs[i]) : segs[i][j] \notin PathChars
        THEN [valid |-> FALSE, error |-> "invalid character"]
    ELSE IF Len(segs) > MAX_PATH_DEPTH
        THEN [valid |-> FALSE, error |-> "path too deep"]
    ELSE [valid |-> TRUE, error |-> ""]

\* isValidTaskHierarchy: MILESTONE contains TASK and GROUP, GROUP contains
\* only TASK, TASK contains nothing.
isValidTaskHierarchy(parentType, childType) ==
    CASE parentType = "MILESTONE" -> [valid |-> childType \in {"TASK", "GROUP"}]
      [] parentType = "GROUP"     -> [valid |-> childType = "TASK"]
      [] OTHER                    -> [valid |-> FALSE]

----------------------------------------------------------------------------
(* TaskStorage contract *)

\* storage.getTask(path): the task, or null
Exists(store, path) == path \in DOMAIN store

\* storage.saveTask(task): upsert under task.path
saveTask(store, task) ==
    [p \in DOMAIN store \cup {task.path} |-> IF p = task.path THEN task ELSE store[p]]

\* storage.deleteTask(path): removes the record stored under that one path
storageDeleteTask(store, path) ==
    [p \in DOMAIN store \ {path} |-> store[p]]

\* storage.clearAllTasks(): removes every record
storageClearAllTasks(store) == EmptyObj

----------------------------------------------------------------------------
(* Results *)

Success(op, path, affected) ==
    [op |-> op, path |-> path, ok |-> TRUE, error |-> "none", affectedPaths |-> affected,
     failures |-> {}, data |-> EmptyObj, details |-> EmptyObj]

Failure(op, path, code) ==
    [op |-> op, path |-> path, ok |-> FALSE, error |-> code, affectedPaths |-> <<>>,
     failures |-> {}, data |-> EmptyObj, details |-> EmptyObj]

\* { success: true, data: task, ... }
SuccessWith(op, task) == Spread(Success(op, task.path, <<task.path>>), [data |-> task])

\* createError(code, details, ...)
FailureWith(op, path, code, details) == Spread(Failure(op, path, code), [details |-> details])

Outcome(store, res, written) == [store |-> store, result |-> res, changed |-> written]

----------------------------------------------------------------------------
(* TaskManager *)

\* generateTaskPath: the parent path (when given) joined with the slug of the name
generateTaskPath(input) ==
    LET slug == ReplaceNonAlnumRuns(ToLowerCase(input.name), FALSE) IN
    Join((IF TruthyText(input, "parentPath") THEN <<input.parentPath>> ELSE <<>>) \o <<slug>>)

\* { ...metadata } with the dependencies key left in
WithoutDependencies_Kept(metadata) == metadata

\* { ...metadata } without the dependencies key
WithoutDependencies(metadata) ==
    [k \in DOMAIN metadata \ {"dependencies"} |-> metadata[k]]

InputMetadata(input) == IF Has(input, "metadata") THEN input.metadata ELSE EmptyObj

\* key k of o when present, as a one-key object; nothing otherwise
Field(o, k) == IF Has(o, k) THEN (k :> o[k]) ELSE EmptyObj

SeqToSet(s) == {s[i] : i \in 1..Len(s)}

\* input.path || this.generateTaskPath(input)
CreatePath(input) ==
    IF TruthyText(input, "path") THEN input.path ELSE generateTaskPath(input)

\* validation of the path only when the input gives one
ValidatedPath_ExplicitOnly(input) ==
    IF TruthyText(input, "path") THEN validateTaskPath(input.path)
    ELSE [valid |-> TRUE, error |-> ""]

\* validateTaskPath(path) of the given or generated path
ValidatedPath(input) == validateTaskPath(CreatePath(input))

\* input.type, the empty string standing for undefined
ChildType_AsGiven(input) == IF Has(input, "type") THEN input.type ELSE ""

\* input.type || TaskType.TASK
ChildType(input) == IF TruthyStr(input, "type") THEN input.type ELSE "TASK"

\* input.dependencies || metadataDeps || []
CreateDependencies(input) ==
    IF Has(input, "dependencies") THEN input.dependencies
    ELSE IF Has(InputMetadata(input), "dependencies") THEN InputMetadata(input).dependencies
    ELSE <<>>

\* the fields the manager sets, then the input's metadata
CreatedMetadata_InputLast(metadata, path) ==
    Spread([projectPath |-> Split(path)[1], version |-> 1], metadata)

\* the metadata of a created task: the input's metadata, then the fields the
\* manager sets
CreatedMetadata(metadata, path) ==
    Spread(metadata, [projectPath |-> Split(path)[1], version |-> 1])

\* the task object createTask builds
NewTask(path, input) ==
    Spread(
        [path |-> path, name |-> input.name, type |-> ChildType(input), status |-> "pending",
         dependencies |-> CreateDependencies(input), subtasks |-> <<>>,
         metadata |-> CreatedMetadata(WithoutDependencies(InputMetadata(input)), path)],
        Field(input, "description") @@ Field(input, "parentPath")
            @@ Field(input, "notes") @@ Field(input, "reasoning"))

createTask(store, input) ==
    LET path == CreatePath(input)
        pathValidation == ValidatedPath(input)
        task == NewTask(path, input)
    IN
    IF ~pathValidation.valid
        THEN Outcome(store, Failure("create", path, "INVALID_INPUT"), {})
    ELSE IF TruthyText(input, "parentPath") /\ ~Exists(store, input.parentPath)
        THEN Outcome(store, Failure("create", path, "INVALID_INPUT"), {})
    ELSE IF TruthyText(input, "parentPath")
            /\ ~isValidTaskHierarchy(store[input.parentPath].type, ChildType(input)).valid
        THEN Outcome(store,
                     FailureWith("create", path, "TASK_INVALID_PARENT",
                                 [parentType |-> store[input.parentPath].type,
                                  childType |-> ChildType(input)]),
                     {})
    ELSE IF Has(input, "dependencies")
            /\ \E d \in SeqToSet(input.dependencies) : ~Exists(store, d)
        THEN Outcome(store, Failure("create", path, "INVALID_INPUT"), {})
    ELSE Outcome(saveTask(store, task), SuccessWith("create", task), {path})

\* the dependencies were given by the call (dependencies !== task.dependencies)
DependenciesGiven(updates) ==
    Has(updates, "dependencies") \/ Has(InputMetadata(updates), "dependencies")

\* updates.dependencies || metadataDeps || task.dependencies
UpdateDependencies(task, updates) ==
    IF Has(updates, "dependencies") THEN updates.dependencies
    ELSE IF Has(InputMetadata(updates), "dependencies")
        THEN InputMetadata(updates).dependencies
    ELSE task.dependencies

\* the stored metadata, then the version, then the payload's metadata
UpdatedMetadata_PayloadLast(task, metadata) ==
    Spread(Spread(task.metadata, [version |-> task.metadata.version + 1]), metadata)

\* the metadata of an updated task: the stored metadata, then the payload's,
\* then the version
UpdatedMetadata(task, metadata) ==
    Spread(Spread(task.metadata, metadata), [version |-> task.metadata.version + 1])

\* the task read with every key of the payload copied over it
UpdatedTask_PayloadSpread(task, updates) ==
    Spread(Spread(task, updates),
           [metadata |-> UpdatedMetadata(task, WithoutDependencies(InputMetadata(updates)))])

\* the task object updateTask builds from the task it read
UpdatedTask(task, updates) ==
    Spread(task,
        [name |-> IF TruthyText(updates, "name") THEN updates.name ELSE task.name,
         type |-> IF TruthyStr(updates, "type") THEN updates.type ELSE task.type,
         status |-> IF TruthyStr(updates, "status") THEN updates.status
                    ELSE task.status,
         dependencies |-> UpdateDependencies(task, updates),
         metadata |-> UpdatedMetadata(task, WithoutDependencies(InputMetadata(updates)))]
        @@ (IF Has(updates, "description") THEN Field(updates, "description")
            ELSE Field(task, "description"))
        @@ (IF Has(updates, "notes") THEN Field(updates, "notes")
            ELSE Field(task, "notes"))
        @@ (IF TruthyStr(updates, "reasoning") THEN Field(updates, "reasoning")
            ELSE Field(task, "reasoning")))

\* some dependency the call gave is not stored
DependencyMissing(store, task, updates) ==
    DependenciesGiven(updates)
        /\ \E d \in SeqToSet(UpdateDependencies(task, updates)) : ~Exists(store, d)

\* updateTask with the save issued before the dependencies are validated
updateTask_SaveBeforeValidation(store, path, updates) ==
    IF ~Exists(store, path)
        THEN Outcome(store, Failure("update", path, "TASK_NOT_FOUND"), {})
    ELSE IF DependencyMissing(store, store[path], updates)
        THEN Outcome(saveTask(store, UpdatedTask(store[path], updates)),
                     Failure("update", path, "INVALID_INPUT"), {path})
    ELSE Outcome(saveTask(store, UpdatedTask(store[path], updates)),
                 SuccessWith("update", UpdatedTask(store[path], updates)), {path})

updateTask(store, path, updates) ==
    IF ~Exists(store, path)
        THEN Outcome(store, Failure("update", path, "TASK_NOT_FOUND"), {})
    ELSE IF DependencyMissing(store, store[path], updates)
        THEN Outcome(store, Failure("update", path, "INVALID_INPUT"), {})
    ELSE Outcome(saveTask(store, UpdatedTask(store[path], updates)),
                 SuccessWith("update", UpdatedTask(store[path], updates)), {path})

deleteTask(store, path) ==
    Outcome(storageDeleteTask(store, path), Success("delete", path, <<path>>),
            {path} \cap DOMAIN store)

\* clearAllTasks that forwards to the store whatever confirm is
clearAllTasks_Unconfirmed(store, confirm) ==
    Outcome(storageClearAllTasks(store), Success("clear", <<>>, <<>>), DOMAIN store)

clearAllTasks(store, confirm) ==
    IF ~confirm
        THEN Outcome(store, Failure("clear", <<>>, "INVALID_INPUT"), {})
    ELSE Outcome(storageClearAllTasks(store), Success("clear", <<>>, <<>>), DOMAIN store)

----------------------------------------------------------------------------
(* Inputs *)

P_m == <<"m">>
P_ma == <<"m", "/", "a">>
P_mb == <<"m", "/", "b">>
P_mx == <<"m", "x">>

Paths == {P_m, P_ma, P_mb, P_mx}

\* a path with an empty segment
P_bad == <<"m", "/", "/", "a">>

\* a name whose slug is the path mx
N_MX == <<"M", "X">>

\* a path with more segments than the maximum depth
P_deep == <<"m", "/", "a", "/", "b", "/", "x">>

CreateInputs ==
    { [path |-> p, name |-> <<"T">>] @@ par @@ ty @@ deps :
        p \in {P_m, P_ma, P_mb},
        par \in {EmptyObj} \cup {[parentPath |-> q] : q \in {P_m}},
        ty \in {EmptyObj, [type |-> "MILESTONE"]},
        deps \in {EmptyObj} \cup {[dependencies |-> <<d>>] : d \in {P_ma, P_mb}} }
    \cup { [name |-> N_MX], [name |-> N_MX, parentPath |-> P_m],
           [path |-> P_bad, name |-> <<"T">>] }

UpdateInputs ==
    { st @@ deps :
        st \in {EmptyObj} \cup {[status |-> s] : s \in {"in_progress", "completed", "blocked"}},
        deps \in {EmptyObj} \cup {[dependencies |-> <<d>>] : d \in {P_ma, P_mb}} }

\* metadata objects a payload may carry: one with its own version (and a
\* priority), one with its own projectPath, one with a status and a version
PayloadVersion == [version |-> 7, priority |-> "high"]
PayloadProject == [projectPath |-> <<"x">>]
PayloadStatus == [status |-> "completed", version |-> 7]

\* inputs that also give the GROUP type, a metadata object, the legacy
\* metadata.dependencies, a new type or a new name
PayloadCreateInputs ==
    CreateInputs
    \cup { [path |-> p, name |-> <<"T">>, type |-> "GROUP"] @@ par :
             p \in {P_m, P_ma},
             par \in {EmptyObj} \cup {[parentPath |-> q] : q \in {P_m}} }
    \cup { [path |-> P_ma, name |-> <<"T">>,
            metadata |-> PayloadStatus @@ PayloadProject],
           [path |-> P_mb, name |-> <<"T">>, metadata |-> [dependencies |-> <<P_ma>>]],
           [name |-> <<>>], [name |-> <<>>, parentPath |-> P_m],
           [path |-> P_deep, name |-> <<"T">>] }

PayloadUpdateInputs ==
    UpdateInputs
    \cup { [type |-> "TASK"], [name |-> <<"N">>],
           [metadata |-> PayloadVersion], [metadata |-> PayloadProject],
           [metadata |-> PayloadVersion, dependencies |-> <<P_mb>>] }

----------------------------------------------------------------------------
(* The calls *)

ApplyWithin(o, bound) ==
    /\ calls < bound
    /\ tasks' = o.store
    /\ result' = o.result
    /\ changed' = o.changed
    /\ calls' = calls + 1
    /\ UNCHANGED <<inflight, storeCalls, server, manager>>

Apply(o) == ApplyWithin(o, MaxCalls)

CreateTask == \E input \in CreateInputs : Apply(createTask(tasks, input))

UpdateTask == \E p \in Paths : \E updates \in UpdateInputs : Apply(updateTask(tasks, p, updates))

DeleteTask == \E p \in Paths : Apply(deleteTask(tasks, p))

\* AtlasMcpServer after construction: isShuttingDown = false, activeRequests
\* empty, no request being handled, stop() not called, nothing closed
InitialServer ==
    [isShuttingDown |-> FALSE, activeRequests |-> {}, requests |-> EmptyObj,
     stops |-> EmptyObj, closes |-> 0, closed |-> FALSE, drainExpired |-> FALSE]

\* TaskManager after construction: setupMemoryMonitoring() has set the
\* interval, cleanup() was not called, nothing has happened to the caches or
\* the storage connection
InitialManager ==
    [memoryMonitor |-> TRUE, cleanups |-> EmptyObj, events |-> <<>>, ticks |-> 0]

Init ==
    /\ tasks = EmptyObj
    /\ result = Success("none", <<>>, <<>>)
    /\ changed = {}
    /\ calls = 0
    /\ inflight = EmptyObj
    /\ storeCalls = <<>>
    /\ server = InitialServer
    /\ manager = InitialManager

Next == UpdateTask \/ CreateTask \/ DeleteTask

Spec == Init /\ [][Next]_vars

\* the same calls, over the inputs that carry a payload
PayloadCreateTask ==
    \E input \in PayloadCreateInputs : ApplyWithin(createTask(tasks, input), MaxPayloadCalls)

PayloadUpdateTask ==
    \E p \in Paths : \E updates \in PayloadUpdateInputs :
        ApplyWithin(updateTask(tasks, p, updates), MaxPayloadCalls)

PayloadDeleteTask == \E p \in Paths : ApplyWithin(deleteTask(tasks, p), MaxPayloadCalls)

NextPayload == PayloadUpdateTask \/ PayloadCreateTask \/ PayloadDeleteTask

SpecPayload == Init /\ [][NextPayload]_vars

----------------------------------------------------------------------------
(* updateTask as the event loop runs it: the call suspends at each await, and
   the other calls in flight run in between *)

Requests == 1..MaxRequests

ConcurrentUpdateInputs ==
    { [status |-> "in_progress"], [name |-> <<"N">>], [dependencies |-> <<P_mb>>] }

ConcurrentCreateInputs ==
    { [path |-> P_ma, name |-> <<"T">>], [path |-> P_mb, name |-> <<"T">>] }

\* the frame of a call without request r
Finished(r) == [q \in DOMAIN inflight \ {r} |-> inflight[q]]

\* the frame of request r moved on
Suspended(r, frame) == [q \in DOMAIN inflight \cup {r} |-> IF q = r THEN frame ELSE inflight[q]]

\* updateTask(path, updates) is called: it asks the store for the task and suspends
UpdateIssued ==
    \E r \in Requests \ DOMAIN inflight : \E p \in {P_ma, P_mb} :
      \E updates \in ConcurrentUpdateInputs :
        /\ calls < MaxConcurrentCalls
        /\ calls' = calls + 1
        /\ inflight' = Suspended(r, [path |-> p, updates |-> updates, pc |-> "getTask"])
        /\ UNCHANGED <<tasks, result, changed, storeCalls, server, manager>>

\* await this.getTaskByPath(path) resolves: not found is thrown, otherwise the
\* call goes on with the task it read
TaskRead ==
    \E r \in DOMAIN inflight :
        /\ inflight[r].pc = "getTask"
        /\ IF ~Exists(tasks, inflight[r].path)
           THEN /\ result' = Failure("update", inflight[r].path, "TASK_NOT_FOUND")
                /\ changed' = {}
                /\ inflight' = Finished(r)
           ELSE /\ inflight' =
                     Suspended(r, [path |-> inflight[r].path, updates |-> inflight[r].updates,
                                   task |-> tasks[inflight[r].path],
                                   pc |-> IF DependenciesGiven(inflight[r].updates)
                                          THEN "validate" ELSE "save"])
                /\ UNCHANGED <<result, changed>>
        /\ UNCHANGED <<tasks, calls, storeCalls, server, manager>>

\* the lookups of the given dependencies resolve
DependenciesValidated ==
    \E r \in DOMAIN inflight :
        /\ inflight[r].pc = "validate"
        /\ IF DependencyMissing(tasks, inflight[r].task, inflight[r].updates)
           THEN /\ result' = Failure("update", inflight[r].path, "INVALID_INPUT")
                /\ changed' = {}
                /\ inflight' = Finished(r)
           ELSE /\ inflight' = Suspended(r, [inflight[r] EXCEPT !.pc = "save"])
                /\ UNCHANGED <<result, changed>>
        /\ UNCHANGED <<tasks, calls, storeCalls, server, manager>>

\* the call returns its result before the save it started resolves: the write
\* reaches the store in a later step
TaskSaved_NotAwaited ==
    \E r \in DOMAIN inflight :
        \/ /\ inflight[r].pc = "save"
           /\ result' = SuccessWith("update",
                                    UpdatedTask(inflight[r].task, inflight[r].updates))
           /\ changed' = {inflight[r].path}
           /\ inflight' = Suspended(r, [inflight[r] EXCEPT !.pc = "returned"])
           /\ UNCHANGED <<tasks, calls, storeCalls, server, manager>>
        \/ /\ inflight[r].pc = "returned"
           /\ tasks' = saveTask(tasks, UpdatedTask(inflight[r].task, inflight[r].updates))
           /\ inflight' = Finished(r)
           /\ UNCHANGED <<result, changed, calls, storeCalls, server, manager>>

\* await this.storage.saveTask(updatedTask) resolves and the call returns
TaskSaved ==
    \E r \in DOMAIN inflight :
        /\ inflight[r].pc = "save"
        /\ LET updatedTask == UpdatedTask(inflight[r].task, inflight[r].updates) IN
           /\ tasks' = saveTask(tasks, updatedTask)
           /\ result' = SuccessWith("update", updatedTask)
           /\ changed' = {inflight[r].path}
        /\ inflight' = Finished(r)
        /\ UNCHANGED <<calls, storeCalls, server, manager>>

ConcurrentCreateTask ==
    \E input \in ConcurrentCreateInputs :
        ApplyWithin(createTask(tasks, input), MaxConcurrentCalls)

NextConcurrent ==
    UpdateIssued \/ TaskRead \/ DependenciesValidated \/ TaskSaved \/ ConcurrentCreateTask

SpecConcurrent == Init /\ [][NextConcurrent]_vars

----------------------------------------------------------------------------
(* The manager over a store whose calls can fail *)

StoreCall(call, path) == [call |-> call, path |-> path, failed |-> FALSE]

\* the lookups of the dependencies, in order, up to the first that is not stored
RECURSIVE DependencyLookups(_, _)
DependencyLookups(store, deps) ==
    IF deps = <<>> THEN <<>>
    ELSE <<StoreCall("getTask", Head(deps))>>
            \o (IF Exists(store, Head(deps)) THEN DependencyLookups(store, Tail(deps))
                ELSE <<>>)

\* the store calls createTask issues when none of them fails
createTaskStoreCalls(store, input) ==
    IF ~ValidatedPath(input).valid THEN <<>>
    ELSE IF TruthyText(input, "parentPath")
            /\ ( \/ ~Exists(store, input.parentPath)
                 \/ ~isValidTaskHierarchy(store[input.parentPath].type,
                                          ChildType(input)).valid )
        THEN <<StoreCall("getTask", input.parentPath)>>
    ELSE (IF TruthyText(input, "parentPath")
              THEN <<StoreCall("getTask", input.parentPath)>> ELSE <<>>)
         \o (IF Has(input, "dependencies")
                 THEN DependencyLookups(store, input.dependencies) ELSE <<>>)
         \o (IF createTask(store, input).result.ok
                 THEN <<StoreCall("saveTask", CreatePath(input))>> ELSE <<>>)

\* the store calls updateTask issues when none of them fails
updateTaskStoreCalls(store, path, updates) ==
    <<StoreCall("getTask", path)>>
    \o (IF Exists(store, path) /\ DependenciesGiven(updates)
            THEN DependencyLookups(store, UpdateDependencies(store[path], updates))
            ELSE <<>>)
    \o (IF updateTask(store, path, updates).result.ok
            THEN <<StoreCall("saveTask", path)>> ELSE <<>>)

\* the store call deleteTask issues
deleteTaskStoreCalls(path) == <<StoreCall("deleteTask", path)>>

\* the store call clearAllTasks issues
clearAllTasksStoreCalls(confirm) ==
    IF confirm THEN <<StoreCall("clearAllTasks", <<>>)>> ELSE <<>>

\* the issued calls up to the one that failed, that one marked
UpToFailed(issued, fault) ==
    [i \in 1..fault |-> IF i = fault THEN [issued[i] EXCEPT !.failed = TRUE] ELSE issued[i]]

\* a call whose failed store call is issued once more, and then goes on
WithStoreFault_RetriedOnce(store, outcome, issued, fault) ==
    Spread(outcome,
           [storeCalls |-> IF fault \in 1..Len(issued)
                           THEN UpToFailed(issued, fault) \o SubSeq(issued, fault, Len(issued))
                           ELSE issued])

\* catch (error) { this.logger.error(...); throw error; }: when store call
\* number `fault` of the call throws, the call ends there with that error;
\* with no such call the outcome is the one of the call
WithStoreFault(store, outcome, issued, fault) ==
    IF fault \in 1..Len(issued)
        THEN Spread(Outcome(store,
                            Failure(outcome.result.op, outcome.result.path, "StoreError"),
                            {}),
                    [storeCalls |-> UpToFailed(issued, fault)])
    ELSE Spread(outcome, [storeCalls |-> issued])

createTaskOverStore(store, input, fault) ==
    WithStoreFault(store, createTask(store, input), createTaskStoreCalls(store, input), fault)

updateTaskOverStore(store, path, updates, fault) ==
    WithStoreFault(store, updateTask(store, path, updates),
                   updateTaskStoreCalls(store, path, updates), fault)

deleteTaskOverStore(store, path, fault) ==
    WithStoreFault(store, deleteTask(store, path), deleteTaskStoreCalls(path), fault)

clearAllTasksOverStore(store, confirm, fault) ==
    WithStoreFault(store, clearAllTasks(store, confirm), clearAllTasksStoreCalls(confirm),
                   fault)

\* a metadata object with the legacy dependencies and a priority
LegacyMetadata == [dependencies |-> <<P_ma>>, priority |-> "low"]

StoreCreateInputs ==
    { [path |-> P_m, name |-> <<"T">>, type |-> "MILESTONE"],
      [path |-> P_ma, name |-> <<"T">>, reasoning |-> "why"],
      [path |-> P_mb, name |-> <<"T">>, metadata |-> LegacyMetadata],
      [path |-> P_mb, name |-> <<"T">>, dependencies |-> <<>>, metadata |-> LegacyMetadata],
      [path |-> P_mb, name |-> <<"T">>, parentPath |-> P_m, dependencies |-> <<P_ma>>] }

StoreUpdateInputs ==
    { [status |-> "completed"], [reasoning |-> ""], [name |-> <<>>], [description |-> ""],
      [notes |-> <<"n">>], [type |-> "GROUP"],
      [metadata |-> LegacyMetadata],
      [dependencies |-> <<>>, metadata |-> LegacyMetadata],
      [dependencies |-> <<P_mx>>] }

\* which store call of a call fails (none for 0): a call issues at most a
\* parent lookup, a dependency lookup and a write
Faults == 0..3

ApplyOverStore(o) ==
    /\ calls < MaxStoreSpecCalls
    /\ tasks' = o.store
    /\ result' = o.result
    /\ changed' = o.changed
    /\ storeCalls' = o.storeCalls
    /\ calls' = calls + 1
    /\ UNCHANGED <<inflight, server, manager>>

StoreCreateTask ==
    \E input \in StoreCreateInputs : \E fault \in Faults :
        ApplyOverStore(createTaskOverStore(tasks, input, fault))

StoreUpdateTask ==
    \E p \in {P_ma, P_mb} : \E updates \in StoreUpdateInputs : \E fault \in Faults :
        ApplyOverStore(updateTaskOverStore(tasks, p, updates, fault))

StoreDeleteTask ==
    \E p \in {P_ma, P_mb} : \E fault \in Faults :
        ApplyOverStore(deleteTaskOverStore(tasks, p, fault))

StoreClearAllTasks ==
    \E confirm \in BOOLEAN : \E fault \in Faults :
        ApplyOverStore(clearAllTasksOverStore(tasks, confirm, fault))

NextStore == StoreUpdateTask \/ StoreCreateTask \/ StoreDeleteTask \/ StoreClearAllTasks

SpecStore == Init /\ [][NextStore]_vars

----------------------------------------------------------------------------
(* Derived relations over the store *)

\* the paths a stored task lists in its dependencies
DepsOf(store, p) == IF p \in DOMAIN store THEN SeqToSet(store[p].dependencies) ELSE {}

\* the paths reachable from the frontier along one or more dependency edges
RECURSIVE ReachFrom(_, _, _)
ReachFrom(store, frontier, seen) ==
    LET next == UNION {DepsOf(store, p) : p \in frontier} \ seen IN
    IF next = {} THEN seen ELSE ReachFrom(store, next, seen \cup next)

Reach(store, p) == ReachFrom(store, {p}, {})

\* the dependencies of p that are not stored with status completed
IncompleteDeps(store, p) ==
    {d \in DepsOf(store, p) : d \notin DOMAIN store \/ store[d].status # "completed"}

\* the tasks that name m as their parentPath
Children(store, m) ==
    {c \in DOMAIN store : Has(store[c], "parentPath") /\ store[c].parentPath = m}

\* q lies under p: p followed by the separator is a proper prefix of q
IsDescendantPath(q, p) ==
    /\ Len(q) > Len(p) + 1
    /\ SubSeq(q, 1, Len(p) + 1) = p \o <<SEP>>

\* the step just taken was updateTask(p, updates)
IsUpdateCall(p, updates) ==
    /\ calls' = calls + 1
    /\ tasks' = updateTask(tasks, p, updates).store
    /\ result' = updateTask(tasks, p, updates).result

\* the step just taken was createTask(input)
IsCreateCall(input) ==
    /\ calls' = calls + 1
    /\ tasks' = createTask(tasks, input).store
    /\ result' = createTask(tasks, input).result

\* the path with its last segment removed (empty for a path of one segment)
ParentPathOf(path) ==
    LET segs == Split(path) IN
    IF Len(segs) <= 1 THEN <<>> ELSE Join(SubSeq(segs, 1, Len(segs) - 1))

\* the children of p: the tasks whose parentPath, or whose path without its
\* last segment, is p
ChildrenOf(store, p) ==
    {c \in DOMAIN store :
        \/ (Has(store[c], "parentPath") /\ store[c].parentPath = p)
        \/ ParentPathOf(c) = p}

\* the step just taken was deleteTask(p)
IsDeleteCall(p) ==
    /\ calls' = calls + 1
    /\ tasks' = deleteTask(tasks, p).store
    /\ result' = deleteTask(tasks, p).result

----------------------------------------------------------------------------
(* The read operations, and updateTask with payloads that name a path *)

MaxFrameCalls == 3

\* the response of a read: the tasks found
ReadOutcome(store, op, path, found) ==
    Outcome(store, Spread(Success(op, path, <<>>), [data |-> found]), {})

\* return await this.storage.getTask(path)
getTaskByPath(store, path) ==
    ReadOutcome(store, "getTaskByPath", path,
                IF Exists(store, path) THEN {store[path]} ELSE {})

\* return await this.storage.getTasksByPattern(pathPattern), for the pattern
\* "<prefix>/*"
listTasks(store, prefix) ==
    ReadOutcome(store, "listTasks", prefix,
                {store[q] : q \in {x \in DOMAIN store : IsDescendantPath(x, prefix)}})

\* return await this.storage.getTasksByStatus(status)
getTasksByStatus(store, status) ==
    ReadOutcome(store, "getTasksByStatus", <<>>,
                {store[q] : q \in {x \in DOMAIN store : store[x].status = status}})

\* return await this.storage.getSubtasks(parentPath)
getSubtasks(store, parentPath) ==
    ReadOutcome(store, "getSubtasks", parentPath,
                {store[q] : q \in Children(store, parentPath)})

ReadOperations == {"getTaskByPath", "listTasks", "getTasksByStatus", "getSubtasks"}

\* a read over the store, store call number `fault` failing
readOverStore(store, op, path, status, fault) ==
    CASE op = "getTaskByPath" ->
           WithStoreFault(store, getTaskByPath(store, path),
                          <<StoreCall("getTask", path)>>, fault)
      [] op = "listTasks" ->
           WithStoreFault(store, listTasks(store, path),
                          <<StoreCall("getTasksByPattern", path)>>, fault)
      [] op = "getTasksByStatus" ->
           WithStoreFault(store, getTasksByStatus(store, status),
                          <<StoreCall("getTasksByStatus", <<>>)>>, fault)
      [] OTHER ->
           WithStoreFault(store, getSubtasks(store, path),
                          <<StoreCall("getSubtasks", path)>>, fault)

\* payloads of updateTask, among them payloads that carry a path or a parentPath
FrameUpdateInputs ==
    { [status |-> "completed"], [name |-> <<"N">>, parentPath |-> P_mb], [path |-> P_mb],
      [type |-> "GROUP", metadata |-> [priority |-> "high"]] }

FrameCreateInputs ==
    { [path |-> P_m, name |-> <<"T">>, type |-> "MILESTONE"],
      [path |-> P_ma, name |-> <<"T">>, parentPath |-> P_m] }

ApplyFrame(o) ==
    /\ calls < MaxFrameCalls
    /\ tasks' = o.store
    /\ result' = o.result
    /\ changed' = o.changed
    /\ storeCalls' = o.storeCalls
    /\ calls' = calls + 1
    /\ UNCHANGED <<inflight, server, manager>>

FrameCreateTask ==
    \E input \in FrameCreateInputs : ApplyFrame(createTaskOverStore(tasks, input, 0))

FrameUpdateTask ==
    \E p \in {P_m, P_ma} : \E updates \in FrameUpdateInputs : \E fault \in {0, 2} :
        ApplyFrame(updateTaskOverStore(tasks, p, updates, fault))

FrameRead ==
    \E op \in ReadOperations : \E p \in {P_m, P_ma} :
      \E status \in {"pending", "completed"} : \E fault \in {0, 1} :
        ApplyFrame(readOverStore(tasks, op, p, status, fault))

NextFrame == FrameUpdateTask \/ FrameCreateTask \/ FrameRead

SpecFrame == Init /\ [][NextFrame]_vars

----------------------------------------------------------------------------
(* DependencyGraph and BulkOperationCoordinator *)

\* wouldCreateCycle: giving task `from` the dependencies `deps` closes a cycle
\* when `from` is one of them or is reachable from one of them.
wouldCreateCycle(store, from, deps) ==
    from \in deps \/ \E d \in deps : from \in Reach(store, d)

\* the stored paths that lie under p
Descendants(store, p) == {q \in DOMAIN store : IsDescendantPath(q, p)}

\* the createTask input of a create operation: its data under its path
CreateInputOf(op) == Spread(op.data, [path |-> op.path])

\* the dependencies an operation's data asks for (the dependencies field, or
\* the legacy metadata.dependencies), as a set
RequestedDeps(data) ==
    IF Has(data, "dependencies") THEN SeqToSet(data.dependencies)
    ELSE IF Has(InputMetadata(data), "dependencies")
        THEN SeqToSet(InputMetadata(data).dependencies)
    ELSE {}

\* validation of one operation against a state: "none", or the error kind
validateOperation(sim, op) ==
    CASE op.type = "create" ->
           LET input == CreateInputOf(op)
               type == IF TruthyStr(input, "type") THEN input.type ELSE "TASK"
           IN
           IF ~validateTaskPath(op.path).valid THEN "InvalidPath"
           ELSE IF TruthyText(input, "parentPath") /\ ~Exists(sim, input.parentPath)
               THEN "TaskNotFound"
           ELSE IF TruthyText(input, "parentPath")
                   /\ ~isValidTaskHierarchy(sim[input.parentPath].type, type).valid
               THEN "InvalidHierarchy"
           ELSE IF \E d \in RequestedDeps(op.data) : ~Exists(sim, d) THEN "TaskNotFound"
           ELSE IF wouldCreateCycle(sim, op.path, RequestedDeps(op.data))
               THEN "CyclicDependency"
           ELSE "none"
      [] op.type = "update" ->
           IF ~Exists(sim, op.path) THEN "TaskNotFound"
           ELSE IF \E d \in RequestedDeps(op.data) : ~Exists(sim, d) THEN "TaskNotFound"
           ELSE IF wouldCreateCycle(sim, op.path, RequestedDeps(op.data))
               THEN "CyclicDependency"
           ELSE "none"
      [] OTHER ->
           IF ~Exists(sim, op.path) THEN "TaskNotFound" ELSE "none"

\* one store delete per path of the set
RECURSIVE deleteAll(_, _)
deleteAll(store, paths) ==
    IF paths = {} THEN store
    ELSE LET q == CHOOSE x \in paths : TRUE IN
         deleteAll(storageDeleteTask(store, q), paths \ {q})

\* the effect of one valid operation: the state after it and the paths it touched
applyOperation(sim, op) ==
    CASE op.type = "create" ->
           [store |-> createTask(sim, CreateInputOf(op)).store, touched |-> {op.path}]
      [] op.type = "update" ->
           [store |-> updateTask(sim, op.path, op.data).store, touched |-> {op.path}]
      [] OTHER ->
           LET gone == ({op.path} \cup Descendants(sim, op.path)) \cap DOMAIN sim IN
           [store |-> deleteAll(sim, gone), touched |-> gone]

\* validation pass: every operation is validated against the persisted state
\* plus the effects of the operations before it; the result is the set of
\* failures, each with the index of the operation and the reason.
RECURSIVE validateBatch_PersistedOnly(_, _, _)
validateBatch_PersistedOnly(sim, ops, index) ==
    IF ops = <<>> THEN {}
    ELSE LET reason == validateOperation(sim, Head(ops)) IN
         (IF reason = "none" THEN {} ELSE {[index |-> index, reason |-> reason]})
            \cup validateBatch_PersistedOnly(sim, Tail(ops), index + 1)

RECURSIVE validateBatch(_, _, _)
validateBatch(sim, ops, index) ==
    IF ops = <<>> THEN {}
    ELSE LET reason == validateOperation(sim, Head(ops)) IN
         IF reason = "none"
         THEN validateBatch(applyOperation(sim, Head(ops)).store, Tail(ops), index + 1)
         ELSE {[index |-> index, reason |-> reason]}
                 \cup validateBatch(sim, Tail(ops), index + 1)

\* apply pass: the operations in the submitted order
RECURSIVE applyBatch(_, _, _)
applyBatch(store, ops, touched) ==
    IF ops = <<>> THEN [store |-> store, touched |-> touched]
    ELSE LET o == applyOperation(store, Head(ops)) IN
         applyBatch(o.store, Tail(ops), touched \cup o.touched)

\* the valid operations before the first failing one, applied
RECURSIVE applyValidPrefix(_, _)
applyValidPrefix(store, ops) ==
    IF ops = <<>> \/ validateOperation(store, Head(ops)) # "none" THEN store
    ELSE applyValidPrefix(applyOperation(store, Head(ops)).store, Tail(ops))

\* the paths of a set, listed once each
RECURSIVE SetToSeq(_)
SetToSeq(S) ==
    IF S = {} THEN <<>>
    ELSE LET q == CHOOSE x \in S : TRUE IN <<q>> \o SetToSeq(S \ {q})

BulkFailure(failures) ==
    [op |-> "bulk", path |-> <<>>, ok |-> FALSE, error |-> "BatchValidationFailed",
     affectedPaths |-> <<>>, failures |-> failures, data |-> EmptyObj, details |-> EmptyObj]

bulkTaskOperations_PartialApply(store, ops) ==
    LET failures == validateBatch(store, ops, 1) IN
    IF failures # {}
        THEN Outcome(applyValidPrefix(store, ops), BulkFailure(failures), {})
    ELSE LET applied == applyBatch(store, ops, {}) IN
         Outcome(applied.store, Success("bulk", <<>>, SetToSeq(applied.touched)),
                 applied.touched)

\* apply(ops): all of the batch, or none of it
bulkTaskOperations(store, ops) ==
    LET failures == validateBatch(store, ops, 1) IN
    IF failures # {}
        THEN Outcome(store, BulkFailure(failures), {})
    ELSE LET applied == applyBatch(store, ops, {}) IN
         Outcome(applied.store, Success("bulk", <<>>, SetToSeq(applied.touched)),
                 applied.touched)

MaxBulkCalls == 3

BulkOps ==
    { [type |-> "create", path |-> P_m, data |-> [name |-> <<"M">>, type |-> "MILESTONE"]],
      [type |-> "create", path |-> P_ma, data |-> [name |-> <<"A">>, parentPath |-> P_m]],
      [type |-> "create", path |-> P_mb,
       data |-> [name |-> <<"B">>, parentPath |-> P_m, dependencies |-> <<P_ma>>]],
      [type |-> "update", path |-> P_ma, data |-> [dependencies |-> <<P_mb>>]],
      [type |-> "update", path |-> P_mx, data |-> [status |-> "completed"]],
      [type |-> "delete", path |-> P_m, data |-> EmptyObj] }

BulkInputs == UNION {[1..n -> BulkOps] : n \in 1..MaxBatch}

BulkTaskOperations ==
    \E ops \in BulkInputs :
        /\ calls < MaxBulkCalls
        /\ LET o == bulkTaskOperations(tasks, ops) IN
           /\ tasks' = o.store
           /\ result' = o.result
           /\ changed' = o.changed
        /\ calls' = calls + 1
        /\ UNCHANGED <<inflight, storeCalls, server, manager>>

NextBulk == BulkTaskOperations

SpecBulk == Init /\ [][NextBulk]_vars

----------------------------------------------------------------------------
(* The apply pass of a batch over a store whose calls can fail *)

MaxApplyCalls == 3

MaxApplyBatch == 2

\* a store call issued for the operation at position index of the batch
ApplyCall(call, path, index) == Spread(StoreCall(call, path), [index |-> index])

\* the store calls one valid operation issues: one save for a create or an
\* update, one delete per path for a delete
operationStoreCalls(sim, op, index) ==
    IF op.type \in {"create", "update"} THEN <<ApplyCall("saveTask", op.path, index)>>
    ELSE LET gone == SetToSeq(({op.path} \cup Descendants(sim, op.path)) \cap DOMAIN sim) IN
         [i \in 1..Len(gone) |-> ApplyCall("deleteTask", gone[i], index)]

\* the paths of the store calls that were done before call number k failed
DoneBefore(issued, k) == {issued[i].path : i \in 1..(k - 1)}

\* the apply pass with store call number `fault` of the batch failing, all
\* the same issued and the batch carried on to its end
RECURSIVE applyBatchOverStore_ContinuedAfterError(_, _, _, _, _, _)
applyBatchOverStore_ContinuedAfterError(store, ops, index, touched, log, fault) ==
    IF ops = <<>>
        THEN [store |-> store, touched |-> touched, log |-> log, failed |-> FALSE]
    ELSE LET issued == operationStoreCalls(store, Head(ops), index)
             k == fault - Len(log)
             o == applyOperation(store, Head(ops))
         IN applyBatchOverStore_ContinuedAfterError(
                o.store, Tail(ops), index + 1, touched \cup o.touched,
                log \o (IF k \in 1..Len(issued)
                        THEN [i \in 1..Len(issued) |->
                                 IF i = k THEN [issued[i] EXCEPT !.failed = TRUE]
                                 ELSE issued[i]]
                        ELSE issued),
                fault)

\* the apply pass, store call number `fault` of the batch failing (none for
\* 0): the operations in the submitted order, each issuing its store calls,
\* up to the call that fails
RECURSIVE applyBatchOverStore(_, _, _, _, _, _)
applyBatchOverStore(store, ops, index, touched, log, fault) ==
    IF ops = <<>>
        THEN [store |-> store, touched |-> touched, log |-> log, failed |-> FALSE]
    ELSE LET issued == operationStoreCalls(store, Head(ops), index)
             k == fault - Len(log)
             o == applyOperation(store, Head(ops))
         IN IF k \in 1..Len(issued)
            THEN [store |-> IF Head(ops).type = "delete"
                            THEN deleteAll(store, DoneBefore(issued, k))
                            ELSE store,
                  touched |-> IF Head(ops).type = "delete"
                              THEN touched \cup DoneBefore(issued, k)
                              ELSE touched,
                  log |-> log \o UpToFailed(issued, k),
                  failed |-> TRUE]
            ELSE applyBatchOverStore(o.store, Tail(ops), index + 1,
                                     touched \cup o.touched, log \o issued, fault)

\* apply(ops) over the store: a batch that fails validation issues no store
\* write; a store error ends the batch with that error
bulkTaskOperationsOverStore(store, ops, fault) ==
    LET failures == validateBatch(store, ops, 1) IN
    IF failures # {}
        THEN Spread(Outcome(store, BulkFailure(failures), {}), [storeCalls |-> <<>>])
    ELSE LET applied == applyBatchOverStore(store, ops, 1, {}, <<>>, fault) IN
         Spread(Outcome(applied.store,
                        IF applied.failed THEN Failure("bulk", <<>>, "StoreError")
                        ELSE Success("bulk", <<>>, SetToSeq(applied.touched)),
                        applied.touched),
                [storeCalls |-> applied.log])

ApplyOps ==
    { [type |-> "create", path |-> P_m, data |-> [name |-> <<"M">>, type |-> "MILESTONE"]],
      [type |-> "create", path |-> P_ma, data |-> [name |-> <<"A">>, parentPath |-> P_m]],
      [type |-> "update", path |-> P_ma, data |-> [status |-> "completed"]],
      [type |-> "delete", path |-> P_m, data |-> EmptyObj] }

ApplyInputs == UNION {[1..n -> ApplyOps] : n \in 1..MaxApplyBatch}

\* which store call of the batch fails (none for 0)
ApplyFaults == 0..MaxApplyBatch

BulkTaskOperationsOverStore ==
    \E ops \in ApplyInputs : \E fault \in ApplyFaults :
        /\ calls < MaxApplyCalls
        /\ LET o == bulkTaskOperationsOverStore(tasks, ops, fault) IN
           /\ tasks' = o.store
           /\ result' = o.result
           /\ changed' = o.changed
           /\ storeCalls' = o.storeCalls
        /\ calls' = calls + 1
        /\ UNCHANGED <<inflight, server, manager>>

NextApply == BulkTaskOperationsOverStore

SpecApply == Init /\ [][NextApply]_vars

----------------------------------------------------------------------------
(* AtlasMcpServer: the request handlers and stop() as the event loop runs them *)

MaxToolCalls == 2

MaxStopCalls == 2

\* the bounds of the specification with fairness
MaxLiveToolCalls == 1

MaxLiveStopCalls == 2

RequestIds == 1..MaxToolCalls

StopCallers == 1..MaxStopCalls


\* the requests of the model: two tool calls and a tools/list request
ToolCalls ==
    { [kind |-> "CallTool", tool |-> "create", input |-> [path |-> P_ma, name |-> <<"T">>]],
      [kind |-> "CallTool", tool |-> "update", path |-> P_ma,
       updates |-> [status |-> "in_progress"]],
      [kind |-> "ListTools"] }

\* the server with request r as given
WithRequest(srv, r, req) ==
    [srv EXCEPT !.requests =
        [q \in DOMAIN srv.requests \cup {r} |-> IF q = r THEN req ELSE srv.requests[q]]]

\* the server with stop() caller c at pc
WithStop(srv, c, pc) ==
    [srv EXCEPT !.stops =
        [d \in DOMAIN srv.stops \cup {c} |-> IF d = c THEN pc ELSE srv.stops[d]]]

\* a request that is answered without its id being taken out of activeRequests
Answered_NotRemoved(srv, r, outcome) ==
    WithRequest(srv, r,
        [srv.requests[r] EXCEPT !.pc = "answered", !.outcome = outcome,
                                !.answers = srv.requests[r].answers + 1])

\* the handler of request r returns or throws `outcome`:
\* finally { this.activeRequests.delete(requestId); ... }
Answered(srv, r, outcome) ==
    [WithRequest(srv, r,
        [srv.requests[r] EXCEPT !.pc = "answered", !.outcome = outcome,
                                !.answers = srv.requests[r].answers + 1])
     EXCEPT !.activeRequests = srv.activeRequests \ {r}]

\* a request as it enters its handler
Arrived(call) ==
    [call |-> call, pc |-> "rateLimit", tool |-> "none", task |-> EmptyObj,
     outcome |-> "none", answers |-> 0]

\* a handler that does not look at isShuttingDown
requestArrived_NoShutdownCheck(srv, r, call) == WithRequest(srv, r, Arrived(call))

\* a request enters its handler: a tool call is rejected when the server is
\* shutting down, otherwise the handler awaits the rate limiter
requestArrived(srv, r, call) ==
    IF call.kind = "CallTool" /\ srv.isShuttingDown
        THEN Answered(WithRequest(srv, r, Arrived(call)), r, "shutdown")
    ELSE WithRequest(srv, r, Arrived(call))

\* the tool handler is called and runs to its first await
toolStarted(req) ==
    IF req.call.kind = "ListTools" THEN [req EXCEPT !.pc = "racing", !.tool = "listing"]
    ELSE IF req.call.tool = "update" THEN [req EXCEPT !.pc = "racing", !.tool = "getTask"]
    ELSE IF ~ValidatedPath(req.call.input).valid
        THEN [req EXCEPT !.pc = "racing", !.tool = "failed"]
    ELSE [req EXCEPT !.pc = "racing", !.tool = "save",
                     !.task = NewTask(CreatePath(req.call.input), req.call.input)]

\* stop() that does not look at isShuttingDown
stopCalled_NoGuard(srv, c) ==
    IF srv.activeRequests = {}
        THEN [WithStop(srv, c, "closing")
              EXCEPT !.isShuttingDown = TRUE, !.closes = srv.closes + 1]
    ELSE [WithStop(srv, c, "draining") EXCEPT !.isShuttingDown = TRUE]

\* stop() is called: it returns at once when the server is shutting down;
\* otherwise it sets isShuttingDown and closes when no request is active, or
\* sleeps in the drain loop
stopCalled(srv, c) ==
    IF srv.isShuttingDown THEN WithStop(srv, c, "returned")
    ELSE IF srv.activeRequests = {}
        THEN [WithStop(srv, c, "closing")
              EXCEPT !.isShuttingDown = TRUE, !.closes = srv.closes + 1]
    ELSE [WithStop(srv, c, "draining") EXCEPT !.isShuttingDown = TRUE]

ServerStep(srv) ==
    /\ server' = srv
    /\ UNCHANGED <<tasks, result, changed, calls, inflight, storeCalls, manager>>

RequestArrivesFrom(ids) ==
    \E r \in ids \ DOMAIN server.requests : \E call \in ToolCalls :
        ServerStep(requestArrived(server, r, call))

\* await this.rateLimiter.checkLimit() settles: it throws, or the id is added
\* to activeRequests and the tool handler is called
RateLimitChecked ==
    \E r \in DOMAIN server.requests :
        /\ server.requests[r].pc = "rateLimit"
        /\ \/ ServerStep(Answered(server, r, "rateLimit"))
           \/ ServerStep([WithRequest(server, r, toolStarted(server.requests[r]))
                          EXCEPT !.activeRequests = server.activeRequests \cup {r}])

\* the tool handler's getTaskByPath resolves
ToolReads ==
    \E r \in DOMAIN server.requests :
        /\ server.requests[r].tool = "getTask"
        /\ LET req == server.requests[r] IN
           ServerStep(WithRequest(server, r,
               IF Exists(tasks, req.call.path)
               THEN [req EXCEPT !.tool = "save",
                                !.task = UpdatedTask(tasks[req.call.path], req.call.updates)]
               ELSE [req EXCEPT !.tool = "failed"]))

\* the tool handler's storage.saveTask resolves: the task is written
ToolSaves ==
    \E r \in DOMAIN server.requests :
        /\ server.requests[r].tool = "save"
        /\ tasks' = saveTask(tasks, server.requests[r].task)
        /\ changed' = {server.requests[r].task.path}
        /\ server' = WithRequest(server, r, [server.requests[r] EXCEPT !.tool = "ok"])
        /\ UNCHANGED <<result, calls, inflight, storeCalls, manager>>

\* toolHandler.listTools() resolves
ToolsListed ==
    \E r \in DOMAIN server.requests :
        /\ server.requests[r].tool = "listing"
        /\ ServerStep(WithRequest(server, r, [server.requests[r] EXCEPT !.tool = "ok"]))

\* a store call of the tool handler never settles
ToolHangs ==
    \E r \in DOMAIN server.requests :
        /\ server.requests[r].tool \in {"getTask", "save"}
        /\ ServerStep(WithRequest(server, r, [server.requests[r] EXCEPT !.tool = "hung"]))

\* the tool handler's promise has settled: the request handler returns its
\* response, or throws its error through handleToolError
ToolSettles ==
    \E r \in DOMAIN server.requests :
        /\ server.requests[r].pc = "racing"
        /\ server.requests[r].tool \in {"ok", "failed"}
        /\ ServerStep(Answered(server, r,
               IF server.requests[r].tool = "ok" THEN "response" ELSE "toolError"))

\* the timer of no request ever fires
RequestTimesOut_Never == FALSE

\* createTimeout(30000) rejects before the tool handler of a tool call settled
RequestTimesOut ==
    \E r \in DOMAIN server.requests :
        /\ server.requests[r].pc = "racing"
        /\ server.requests[r].call.kind = "CallTool"
        /\ server.requests[r].tool \in {"getTask", "save", "hung"}
        /\ ServerStep(Answered(server, r, "timeout"))

StopCalledBy(callers) ==
    \E c \in callers \ DOMAIN server.stops : ServerStep(stopCalled(server, c))

\* the 30 second shutdown timeout elapses while stop() is in its drain loop
ShutdownTimeoutElapses ==
    /\ \E c \in DOMAIN server.stops : server.stops[c] = "draining"
    /\ ~server.drainExpired
    /\ ServerStep([server EXCEPT !.drainExpired = TRUE])

\* the sleep of the drain loop is over: no request is active, or the shutdown
\* timeout was reached, and stop() goes on to close the server and the
\* session system
DrainEnds ==
    \E c \in DOMAIN server.stops :
        /\ server.stops[c] = "draining"
        /\ server.activeRequests = {} \/ server.drainExpired
        /\ ServerStep([WithStop(server, c, "closing") EXCEPT !.closes = server.closes + 1])

\* Promise.all([server.close(), sessionSystem.close()]) resolves; stop() returns
Closed ==
    \E c \in DOMAIN server.stops :
        /\ server.stops[c] = "closing"
        /\ ServerStep([WithStop(server, c, "returned") EXCEPT !.closed = TRUE])

NextServer ==
    \/ RequestArrivesFrom(RequestIds)
    \/ RateLimitChecked
    \/ ToolReads
    \/ ToolSaves
    \/ ToolsListed
    \/ ToolHangs
    \/ ToolSettles
    \/ RequestTimesOut
    \/ StopCalledBy(StopCallers)
    \/ ShutdownTimeoutElapses
    \/ DrainEnds
    \/ Closed

SpecServer == Init /\ [][NextServer]_vars

NextServerLive ==
    \/ RequestArrivesFrom(1..MaxLiveToolCalls)
    \/ RateLimitChecked
    \/ ToolReads
    \/ ToolSaves
    \/ ToolsListed
    \/ ToolHangs
    \/ ToolSettles
    \/ RequestTimesOut
    \/ StopCalledBy(1..MaxLiveStopCalls)
    \/ ShutdownTimeoutElapses
    \/ DrainEnds
    \/ Closed

\* the event loop runs every continuation that is ready, and timers fire
SpecServerFair ==
    /\ Init
    /\ [][NextServerLive]_vars
    /\ WF_vars(RateLimitChecked)
    /\ WF_vars(ToolSettles)
    /\ WF_vars(RequestTimesOut)
    /\ WF_vars(ShutdownTimeoutElapses)
    /\ WF_vars(DrainEnds)
    /\ WF_vars(Closed)

----------------------------------------------------------------------------
(* TaskManager.cleanup() and the memory monitor *)

MaxMonitorTicks == 2

MaxCleanupCalls == 2

\* the interval callback of the memory monitor, as the one who does something
\* (the cleanup() callers are 1, 2, ...)
Monitor == 0

\* something done to the monitor, the caches or the storage, and by whom
Event(who, what) == [who |-> who, what |-> what]

\* the manager with cleanup() caller c at pc, the events appended
WithCleanup(mgr, c, pc, events) ==
    [mgr EXCEPT !.cleanups =
                    [d \in DOMAIN mgr.cleanups \cup {c} |-> IF d = c THEN pc
                                                            ELSE mgr.cleanups[d]],
                !.events = mgr.events \o events]

\* cleanup() that leaves the interval running
cleanupCalled_MonitorLeftRunning(mgr, c) ==
    WithCleanup(mgr, c, "clearCaches", <<Event(c, "clearCache")>>)

\* cleanup() is called: clearInterval(this.memoryMonitor), then clearCaches()
\* is called and awaited
cleanupCalled(mgr, c) ==
    [WithCleanup(mgr, c, "clearCaches",
                 <<Event(c, "clearInterval"), Event(c, "clearCache")>>)
     EXCEPT !.memoryMonitor = FALSE]

ManagerStep(mgr) ==
    /\ manager' = mgr
    /\ UNCHANGED <<tasks, result, changed, calls, inflight, storeCalls, server>>

\* the interval fires with the heap over MAX_CACHE_MEMORY: the monitor calls
\* clearCaches()
MonitorClearsCaches ==
    /\ manager.memoryMonitor
    /\ manager.ticks < MaxMonitorTicks
    /\ ManagerStep([manager EXCEPT !.ticks = manager.ticks + 1,
                                   !.events = manager.events
                                                 \o <<Event(Monitor, "clearCache")>>])

CleanupCalled ==
    \E c \in (1..MaxCleanupCalls) \ DOMAIN manager.cleanups :
        ManagerStep(cleanupCalled(manager, c))

\* await this.clearCaches() settles: it throws and cleanup() throws, or
\* storage.close() is called and awaited
CachesCleared ==
    \E c \in DOMAIN manager.cleanups :
        /\ manager.cleanups[c] = "clearCaches"
        /\ \/ ManagerStep(WithCleanup(manager, c, "failed", <<Event(c, "clearCacheFailed")>>))
           \/ ManagerStep(WithCleanup(manager, c, "close",
                                      <<Event(c, "cachesCleared"), Event(c, "close")>>))

\* await this.storage.close() settles: cleanup() returns, or throws
StorageClosed ==
    \E c \in DOMAIN manager.cleanups :
        /\ manager.cleanups[c] = "close"
        /\ \/ ManagerStep(WithCleanup(manager, c, "failed", <<Event(c, "closeFailed")>>))
           \/ ManagerStep(WithCleanup(manager, c, "done", <<Event(c, "completed")>>))

NextCleanup == MonitorClearsCaches \/ CleanupCalled \/ CachesCleared \/ StorageClosed

SpecCleanup == Init /\ [][NextCleanup]_vars

----------------------------------------------------------------------------
(* Claims about the single-call operations *)

\* C1: in every reachable state the dependency relation over the stored tasks
\* has no cycle: no task reaches itself along dependency edges (a task that
\* depends on itself included).
C1_DependenciesAcyclic ==
    \A p \in DOMAIN tasks : p \notin Reach(tasks, p)

\* C2: when some other stored task A depends on B, an updateTask on B whose new
\* dependencies include A, or a task from which A is reachable, is rejected
\* with a CyclicDependency error and leaves the store as it was.
C2_CyclicUpdateRejected ==
    [][\A B \in Paths : \A updates \in UpdateInputs :
         ( /\ IsUpdateCall(B, updates)
           /\ Exists(tasks, B)
           /\ Has(updates, "dependencies")
           /\ C1_DependenciesAcyclic
           /\ \E A \in DOMAIN tasks \ {B} :
                /\ B \in DepsOf(tasks, A)
                /\ \E d \in SeqToSet(updates.dependencies) :
                     A = d \/ A \in Reach(tasks, d) )
         => (result'.error = "CyclicDependency" /\ tasks' = tasks)]_vars

\* C5: deleteTask(P) of a stored P removes exactly P and the tasks stored under P followed
\* by the separator, and leaves every other task as it was.
C5_DeleteRemovesSubtree ==
    [][\A P \in Paths :
         (IsDeleteCall(P) /\ Exists(tasks, P))
         => /\ DOMAIN tasks' = {q \in DOMAIN tasks : q # P /\ ~IsDescendantPath(q, P)}
            /\ \A q \in DOMAIN tasks' : tasks'[q] = tasks[q]]_vars

\* C6: the affectedPaths of every successful create, update or delete are
\* exactly the paths whose persisted state the call changed.
C6_AffectedPathsAreTheChangedPaths ==
    (result.ok /\ result.op \in {"create", "update", "delete"})
        => SeqToSet(result.affectedPaths) = changed

\* C7: when a call completes a child of a MILESTONE, the MILESTONE is
\* completed when the call returns if and only if all of its direct children
\* are completed.
C7_MilestoneCompletedIffChildren ==
    [][\A c \in DOMAIN tasks \cap DOMAIN tasks' :
         ( /\ tasks[c].status # "completed"
           /\ tasks'[c].status = "completed"
           /\ Has(tasks'[c], "parentPath")
           /\ tasks'[c].parentPath \in DOMAIN tasks'
           /\ tasks'[tasks'[c].parentPath].type = "MILESTONE" )
         => LET m == tasks'[c].parentPath IN
            (tasks'[m].status = "completed"
               <=> \A k \in Children(tasks', m) : tasks'[k].status = "completed")]_vars

\* C8: an updateTask that asks for in_progress or completed on a task that
\* has a dependency (another task) that is not completed stores the task as
\* blocked.
C8_BlockedInsteadOfRequestedStatus ==
    [][\A p \in Paths : \A updates \in UpdateInputs :
         ( /\ IsUpdateCall(p, updates)
           /\ Exists(tasks, p)
           /\ result'.ok
           /\ TruthyStr(updates, "status")
           /\ updates.status \in {"in_progress", "completed"}
           /\ ~Has(updates, "dependencies")
           /\ IncompleteDeps(tasks, p) \ {p} # {} )
         => tasks'[p].status = "blocked"]_vars

\* C9: when a call completes the last incomplete dependency of a blocked
\* task, that task is no longer blocked when the call returns: it is pending.
C9_UnblockedWhenLastDependencyCompletes ==
    [][\A t \in DOMAIN tasks :
         ( /\ t \in DOMAIN tasks'
           /\ t # result'.path
           /\ tasks[t].status = "blocked"
           /\ t \notin DepsOf(tasks, t)
           /\ IncompleteDeps(tasks, t) # {}
           /\ IncompleteDeps(tasks', t) = {} )
         => tasks'[t].status = "pending"]_vars

\* C10: when a call changes the status of a task D, every other task that lists D
\* in its dependencies is blocked exactly when one of its dependencies is
\* not completed.
C10_DependentsRecomputed ==
    [][\A D \in DOMAIN tasks \cap DOMAIN tasks' :
         tasks[D].status # tasks'[D].status
         => \A t \in DOMAIN tasks' \ {D} :
              D \in DepsOf(tasks', t)
              => (tasks'[t].status = "blocked" <=> IncompleteDeps(tasks', t) # {})]_vars

----------------------------------------------------------------------------
(* Claims about the bulk operation coordinator *)

\* the paths an operation refers to: its target (update, delete), its parent
\* and its dependencies
ReferencedPaths(op) ==
    (IF op.type \in {"update", "delete"} THEN {op.path} ELSE {})
        \cup (IF TruthyText(op.data, "parentPath") THEN {op.data.parentPath} ELSE {})
        \cup RequestedDeps(op.data)

\* the paths that exist when operation k of an accepted batch is validated:
\* the stored ones, plus those created and minus those deleted by operations 1..k-1
RECURSIVE KnownBefore(_, _, _)
KnownBefore(store, ops, k) ==
    IF k = 1 THEN DOMAIN store
    ELSE LET known == KnownBefore(store, ops, k - 1)
             op == ops[k - 1]
         IN CASE op.type = "create" -> known \cup {op.path}
              [] op.type = "delete" ->
                   {q \in known : q # op.path /\ ~IsDescendantPath(q, op.path)}
              [] OTHER -> known

ParentThenChild ==
    << [type |-> "create", path |-> P_m, data |-> [name |-> <<"M">>, type |-> "MILESTONE"]],
       [type |-> "create", path |-> P_ma, data |-> [name |-> <<"A">>, parentPath |-> P_m]] >>

\* C3: a bulk call in which some operation fails validation is rejected as a
\* whole and leaves the store exactly as it was before the call, also when the
\* operations before the failing one were valid.
C3_BulkAtomicity ==
    [][(calls' = calls + 1 /\ result'.op = "bulk" /\ result'.failures # {})
         => (~result'.ok /\ result'.error = "BatchValidationFailed" /\ tasks' = tasks)]_vars

\* C3 witness: a rejected batch whose first operation was valid (every failing
\* operation has index 2 or more) and created a path that is not stored.
C3_Witness ==
    /\ result.op = "bulk"
    /\ ~result.ok
    /\ result.failures # {}
    /\ \A f \in result.failures : f.index >= 2
    /\ changed = {}
    /\ P_m \notin DOMAIN tasks

\* C4: in every reachable store, a batch is accepted only if each operation
\* refers only to paths that are stored or were created (and not deleted again)
\* by operations before it in the batch, and the batch that creates a parent
\* and then its child is accepted.
C4_ValidatedAgainstEarlierOperations ==
    /\ \A ops \in BulkInputs :
         bulkTaskOperations(tasks, ops).result.ok
         => \A k \in 1..Len(ops) : ReferencedPaths(ops[k]) \subseteq KnownBefore(tasks, ops, k)
    /\ bulkTaskOperations(tasks, ParentThenChild).result.ok

\* C4 witness: an accepted batch that stored both a parent and its child, the
\* parent not having been stored before the call.
C4_Witness ==
    /\ result.op = "bulk"
    /\ result.ok
    /\ {P_m, P_ma} \subseteq changed
    /\ {P_m, P_ma} \subseteq DOMAIN tasks
    /\ tasks[P_ma].parentPath = P_m
    /\ tasks[P_ma].metadata.version = 1
    /\ tasks[P_m].metadata.version = 1

----------------------------------------------------------------------------
(* Claims about versions, containment and validation *)

C12_VersionNeverDecreasesNorSkips ==
    [][\A p \in DOMAIN tasks \cap DOMAIN tasks' :
         /\ tasks'[p].metadata.version \in
                {tasks[p].metadata.version, tasks[p].metadata.version + 1}
         /\ (result'.op = "create" /\ result'.path = p)
                => /\ tasks'[p].metadata.version = tasks[p].metadata.version
                   /\ tasks'[p].status = tasks[p].status]_vars

\* C13: a mutation of a path does not read or write the task while another
\* mutation of that path is in flight: every updateTask that completes
\* successfully raises the version stored at that moment by one and leaves
\* every field it was not asked to change as it is stored, so that two
\* concurrent updates of one task raise its version by 2 and lose nothing.
C13_NoUpdateLostOnOnePath ==
    [][\A r \in DOMAIN inflight :
         ( /\ inflight[r].pc = "save"
           /\ r \notin DOMAIN inflight'
           /\ result'.op = "update"
           /\ result'.ok
           /\ inflight[r].path \in DOMAIN tasks )
         => LET p == inflight[r].path
                updates == inflight[r].updates
            IN /\ tasks'[p].metadata.version = tasks[p].metadata.version + 1
               /\ \A k \in {"name", "status", "dependencies"} :
                    ~Has(updates, k) => tasks'[p][k] = tasks[p][k]]_vars

\* C14: in every reachable state a TASK has no children, every child of a
\* GROUP is a TASK, and no child of a MILESTONE is a MILESTONE.
C14_ContainmentRulesHold ==
    \A p \in DOMAIN tasks :
        /\ tasks[p].type = "TASK" => ChildrenOf(tasks, p) = {}
        /\ tasks[p].type = "GROUP"
              => \A c \in ChildrenOf(tasks, p) : tasks[c].type = "TASK"
        /\ tasks[p].type = "MILESTONE"
              => \A c \in ChildrenOf(tasks, p) : tasks[c].type # "MILESTONE"

\* the containment table: MILESTONE contains TASK and GROUP, GROUP contains TASK
Permitted(parentType, childType) ==
    <<parentType, childType>>
        \in {<<"MILESTONE", "TASK">>, <<"MILESTONE", "GROUP">>, <<"GROUP", "TASK">>}

\* the child type a create input asks for, TASK when it names none
RequestedType(input) == IF Has(input, "type") THEN input.type ELSE "TASK"

\* the path a create input names or derives, its shape and its dependencies are valid
CreateOtherwiseValid(store, input) ==
    /\ validateTaskPath(CreatePath(input)).valid
    /\ Has(input, "dependencies") => SeqToSet(input.dependencies) \subseteq DOMAIN store

\* C15: a createTask under a stored parent succeeds only if the table permits
\* (parent type, child type), and it does succeed when the rest of the input is valid;
\* otherwise it is rejected with the invalid-parent error carrying both
\* types and the store is as before. A create without a parent succeeds for
\* every type.
C15_CreateObeysContainmentTable ==
    [][\A input \in PayloadCreateInputs :
         ( /\ calls' = calls + 1
           /\ result'.op = "create"
           /\ result'.path = CreatePath(input)
           /\ IsCreateCall(input) )
         => IF TruthyText(input, "parentPath")
            THEN ( /\ Exists(tasks, input.parentPath)
                   /\ validateTaskPath(result'.path).valid )
                 => LET parentType == tasks[input.parentPath].type
                        childType == RequestedType(input)
                    IN IF Permitted(parentType, childType)
                       THEN result'.ok <=> CreateOtherwiseValid(tasks, input)
                       ELSE /\ ~result'.ok
                            /\ result'.error = "TASK_INVALID_PARENT"
                            /\ result'.details = [parentType |-> parentType,
                                                  childType |-> childType]
                            /\ tasks' = tasks
            ELSE CreateOtherwiseValid(tasks, input)
                 => (result'.ok /\ tasks'[result'.path].type = RequestedType(input))]_vars

\* C15 witness: a GROUP asked for under a GROUP was rejected, both types reported.
C15_Witness ==
    /\ result.op = "create"
    /\ ~result.ok
    /\ result.error = "TASK_INVALID_PARENT"
    /\ result.details = [parentType |-> "GROUP", childType |-> "GROUP"]
    /\ result.path \notin DOMAIN tasks

\* C16: in every reachable state every dependency of a stored task is stored.
C16_DependenciesExist ==
    \A p \in DOMAIN tasks : DepsOf(tasks, p) \subseteq DOMAIN tasks

\* C17: in every reachable state the projectPath of a stored task is the
\* first segment of its path.
C17_ProjectPathIsFirstSegment ==
    \A p \in DOMAIN tasks : tasks[p].metadata.projectPath = Split(p)[1]

\* C18: a createTask or updateTask that fails validation has written nothing:
\* saveTask was not invoked and the store is as it was before the call.
C18_ValidationFailsBeforeAnyWrite ==
    [][(calls' = calls + 1 /\ result'.op \in {"create", "update"} /\ ~result'.ok)
         => (tasks' = tasks /\ changed' = {})]_vars

\* C18 witness: an update of a stored task was rejected for a missing
\* dependency, and the task is still at version 1.
C18_Witness ==
    /\ result.op = "update"
    /\ ~result.ok
    /\ result.error = "INVALID_INPUT"
    /\ result.path \in DOMAIN tasks
    /\ tasks[result.path].metadata.version = 1
    /\ changed = {}

C20_PathAgreesWithParentPath ==
    \A p \in DOMAIN tasks :
        Has(tasks[p], "parentPath") => ParentPathOf(p) = tasks[p].parentPath

----------------------------------------------------------------------------
(* Claims about paths, missing references and GROUP tasks *)

\* a path of at most the maximum number of segments, none of them empty, all
\* of allowed characters
WellFormedPath(path) ==
    LET segs == Split(path) IN
    /\ Len(segs) <= MAX_PATH_DEPTH
    /\ \A i \in 1..Len(segs) :
         /\ segs[i] # <<>>
         /\ \A j \in 1..Len(segs[i]) : segs[i][j] \in PathChars

\* C21: every stored path is well formed, whether it was given or derived from
\* the parent path and the name, and a createTask whose given or derived path is
\* not well formed is rejected and saves nothing.
C21_StoredPathsPassedValidation ==
    /\ \A p \in DOMAIN tasks : WellFormedPath(p)
    /\ (result.op = "create" /\ ~WellFormedPath(result.path))
          => (~result.ok /\ changed = {})

\* C21 witness: a create whose path was derived from an empty name (the empty
\* path) was rejected, nothing saved.
C21_Witness ==
    /\ result.op = "create"
    /\ result.path = <<>>
    /\ ~result.ok
    /\ result.error = "INVALID_INPUT"
    /\ changed = {}

\* the call was rejected as naming a task that is not there, the store as before
RejectedAsNotFound ==
    /\ ~result'.ok
    /\ result'.error = "TASK_NOT_FOUND"
    /\ tasks' = tasks

\* C22: a call that names a path that is not stored, as the target of an
\* update or delete, as the parent of a create or as a dependency, fails with
\* the task-not-found error and leaves the store as it was.
C22_MissingReferenceIsTaskNotFound ==
    [][calls' = calls + 1
       => /\ \A p \in Paths :
               (result'.op = "delete" /\ IsDeleteCall(p) /\ ~Exists(tasks, p))
               => RejectedAsNotFound
          /\ \A p \in Paths : \A updates \in UpdateInputs :
               ( /\ result'.op = "update"
                 /\ IsUpdateCall(p, updates)
                 /\ \/ ~Exists(tasks, p)
                    \/ /\ Has(updates, "dependencies")
                       /\ ~(SeqToSet(updates.dependencies) \subseteq DOMAIN tasks) )
               => RejectedAsNotFound
          /\ \A input \in CreateInputs :
               ( /\ result'.op = "create"
                 /\ IsCreateCall(input)
                 /\ WellFormedPath(CreatePath(input))
                 /\ \/ TruthyText(input, "parentPath") /\ ~Exists(tasks, input.parentPath)
                    \/ /\ ~TruthyText(input, "parentPath")
                       /\ Has(input, "dependencies")
                       /\ ~(SeqToSet(input.dependencies) \subseteq DOMAIN tasks) )
               => RejectedAsNotFound]_vars

\* C26: the stored status of a GROUP changes only in an updateTask call on
\* that GROUP.
C26_GroupStatusOnlyByOwnUpdate ==
    [][\A g \in DOMAIN tasks \cap DOMAIN tasks' :
         ( /\ tasks[g].type = "GROUP"
           /\ tasks'[g].type = "GROUP"
           /\ tasks'[g].status # tasks[g].status )
         => (result'.op = "update" /\ result'.path = g)]_vars

----------------------------------------------------------------------------
(* Claims about store failures, clearAllTasks and the update payload *)

\* the store calls of the last call that write
WriteCalls == {i \in 1..Len(storeCalls) : storeCalls[i].call # "getTask"}

\* C24: when a store call of createTask, updateTask or deleteTask fails, it is
\* the last store call of the operation (nothing is issued again after it),
\* the operation ends with the store's error and not with success, and an
\* operation attempts a store write at most once.
C24_StoreErrorPropagatedNotRetried ==
    /\ \A i \in 1..Len(storeCalls) :
         storeCalls[i].failed
         => /\ i = Len(storeCalls)
            /\ ~result.ok
            /\ result.error = "StoreError"
            /\ changed = {}
    /\ Cardinality(WriteCalls) <= 1

\* C24 witness: the saveTask of an updateTask failed, after the lookup of the
\* task; the task is stored as it was created.
C24_Witness ==
    /\ result.op = "update"
    /\ ~result.ok
    /\ result.error = "StoreError"
    /\ Len(storeCalls) = 2
    /\ storeCalls[2].call = "saveTask"
    /\ storeCalls[2].failed
    /\ result.path \in DOMAIN tasks
    /\ tasks[result.path].metadata.version = 1

\* the step just taken was clearAllTasks(confirm), store call number `fault` failing
IsClearCall(confirm, fault) ==
    /\ calls' = calls + 1
    /\ result'.op = "clear"
    /\ LET o == clearAllTasksOverStore(tasks, confirm, fault) IN
       /\ tasks' = o.store
       /\ result' = o.result
       /\ storeCalls' = o.storeCalls

\* C27: clearAllTasks with confirm = false fails with the invalid-input
\* error, issues no store call and leaves every task stored as it was; with
\* confirm = true it issues the store's clearAllTasks once, and the store is
\* empty when that call succeeds.
C27_ClearOnlyWhenConfirmed ==
    [][\A confirm \in BOOLEAN : \A fault \in Faults :
         IsClearCall(confirm, fault)
         => IF confirm
            THEN /\ Len(storeCalls') = 1
                 /\ storeCalls'[1].call = "clearAllTasks"
                 /\ IF storeCalls'[1].failed THEN ~result'.ok /\ tasks' = tasks
                    ELSE result'.ok /\ tasks' = EmptyObj
            ELSE /\ ~result'.ok
                 /\ result'.error = "INVALID_INPUT"
                 /\ storeCalls' = <<>>
                 /\ tasks' = tasks]_vars

\* C27 witness: an unconfirmed clearAllTasks on a store that holds tasks was
\* rejected with no store call issued.
C27_Witness ==
    /\ result.op = "clear"
    /\ ~result.ok
    /\ result.error = "INVALID_INPUT"
    /\ storeCalls = <<>>
    /\ tasks # EmptyObj

\* the step just taken was updateTask(p, updates), store call number `fault` failing
IsUpdateCallOverStore(p, updates, fault) ==
    /\ calls' = calls + 1
    /\ result'.op = "update"
    /\ result'.path = p
    /\ LET o == updateTaskOverStore(tasks, p, updates, fault) IN
       /\ tasks' = o.store
       /\ result' = o.result
       /\ storeCalls' = o.storeCalls

\* the step just taken was createTask(input), store call number `fault` failing
IsCreateCallOverStore(input, fault) ==
    /\ calls' = calls + 1
    /\ result'.op = "create"
    /\ result'.path = CreatePath(input)
    /\ LET o == createTaskOverStore(tasks, input, fault) IN
       /\ tasks' = o.store
       /\ result' = o.result
       /\ storeCalls' = o.storeCalls

UpdatableFields ==
    {"name", "description", "type", "status", "notes", "reasoning", "dependencies"}

\* C28: after a successful updateTask every field of the payload is stored
\* with the value supplied and every field absent from the payload is stored as
\* it was (payloads that give the legacy metadata.dependencies aside: those
\* replace the dependencies, see C29).
C28_PartialUpdate ==
    [][\A p \in {P_ma, P_mb} : \A updates \in StoreUpdateInputs : \A fault \in Faults :
         ( /\ IsUpdateCallOverStore(p, updates, fault)
           /\ result'.ok
           /\ ~Has(InputMetadata(updates), "dependencies") )
         => \A k \in UpdatableFields :
              IF Has(updates, k)
              THEN Has(tasks'[p], k) /\ tasks'[p][k] = updates[k]
              ELSE /\ Has(tasks'[p], k) <=> Has(tasks[p], k)
                   /\ Has(tasks[p], k) => tasks'[p][k] = tasks[p][k]]_vars

\* the dependencies a payload asks for: the dependencies field when given,
\* otherwise metadata.dependencies when given, otherwise the fallback
MigratedDependencies(payload, fallback) ==
    IF Has(payload, "dependencies") THEN payload.dependencies
    ELSE IF Has(payload, "metadata") /\ Has(payload.metadata, "dependencies")
        THEN payload.metadata.dependencies
    ELSE fallback

\* C29: no stored task has a dependencies entry in its metadata, and the
\* dependencies stored by a successful createTask or updateTask are those of
\* the dependencies field when given, otherwise those of metadata.dependencies
\* when given, otherwise none on create and the stored ones on update.
C29_LegacyDependenciesMigrated ==
    [][calls' = calls + 1
       => /\ \A q \in DOMAIN tasks' : ~Has(tasks'[q].metadata, "dependencies")
          /\ \A input \in StoreCreateInputs : \A fault \in Faults :
               (IsCreateCallOverStore(input, fault) /\ result'.ok)
               => tasks'[result'.path].dependencies = MigratedDependencies(input, <<>>)
          /\ \A p \in {P_ma, P_mb} : \A updates \in StoreUpdateInputs : \A fault \in Faults :
               (IsUpdateCallOverStore(p, updates, fault) /\ result'.ok)
               => tasks'[p].dependencies
                     = MigratedDependencies(updates, tasks[p].dependencies)]_vars

\* C29 witness: an updateTask that gave its dependencies in metadata only (with
\* the priority) stored them as the task's dependencies and not in its metadata.
C29_Witness ==
    /\ result.op = "update"
    /\ result.ok
    /\ result.path = P_ma
    /\ tasks[P_ma].dependencies = <<P_ma>>
    /\ Has(tasks[P_ma].metadata, "priority")
    /\ ~Has(tasks[P_ma].metadata, "dependencies")

----------------------------------------------------------------------------
(* Claims about cascade propagation *)

\* the parents reachable from the frontier along one or more parentPath links
RECURSIVE AncestorsFrom(_, _, _)
AncestorsFrom(store, frontier, seen) ==
    LET next == {store[p].parentPath :
                    p \in {q \in frontier \cap DOMAIN store : Has(store[q], "parentPath")}}
                \ seen IN
    IF next = {} THEN seen ELSE AncestorsFrom(store, next, seen \cup next)

\* no task depends on itself through its dependencies, none is its own ancestor
AcyclicRelations(store) ==
    \A p \in DOMAIN store :
        /\ p \notin Reach(store, p)
        /\ p \notin AncestorsFrom(store, {p}, {})

\* the dependents of D that dependent propagation would still change: blocked
\* with every dependency completed, or not blocked with one that is not
DependentsToRecompute(store, D) ==
    {t \in DOMAIN store \ {D} :
        /\ D \in DepsOf(store, t)
        /\ ~(store[t].status = "blocked" <=> IncompleteDeps(store, t) # {})}

\* the parent of D that parent propagation would still change: a MILESTONE
\* that is not completed while all of its direct children are
ParentsToComplete(store, D) ==
    {m \in DOMAIN store :
        /\ Has(store[D], "parentPath")
        /\ store[D].parentPath = m
        /\ store[m].type = "MILESTONE"
        /\ store[m].status # "completed"
        /\ \A k \in Children(store, m) : store[k].status = "completed"}

\* C30: after a call that changed the status of a task, on a store whose
\* dependency and parent relations are acyclic, dependent propagation and
\* parent propagation have reached their fixed point: neither has a status
\* left to change around the changed task.
C30_PropagationReachedFixedPoint ==
    [][\A D \in DOMAIN tasks \cap DOMAIN tasks' :
         ( /\ calls' = calls + 1
           /\ result'.ok
           /\ tasks[D].status # tasks'[D].status
           /\ AcyclicRelations(tasks') )
         => /\ DependentsToRecompute(tasks', D) = {}
            /\ ParentsToComplete(tasks', D) = {}]_vars

----------------------------------------------------------------------------
(* Claims about the apply pass of a batch *)

\* C23: the store calls of the apply pass of a batch are issued in the order
\* of the operations (the positions of their operations never go back and
\* none is passed over); a store call that fails is the last one issued, and
\* the batch then ends with the store's error, not with success.
C23_AppliedInOrderStoppedAtStoreError ==
    result.op = "bulk"
    => /\ \A i \in 1..Len(storeCalls) : \A j \in 1..Len(storeCalls) :
            i < j => storeCalls[i].index <= storeCalls[j].index
       /\ \A i \in 1..Len(storeCalls) :
            \A n \in 1..storeCalls[i].index :
                \E j \in 1..i : storeCalls[j].index = n
       /\ \A i \in 1..Len(storeCalls) :
            storeCalls[i].failed
            => /\ i = Len(storeCalls)
               /\ ~result.ok
               /\ result.error = "StoreError"

\* C23 witness: the store call of the second operation of a batch failed after
\* the first operation, a create, was applied: the batch ended with the store's
\* error and the created task is stored.
C23_Witness ==
    /\ result.op = "bulk"
    /\ ~result.ok
    /\ result.error = "StoreError"
    /\ Len(storeCalls) = 2
    /\ ~storeCalls[1].failed
    /\ storeCalls[1].index = 1
    /\ storeCalls[1].call = "saveTask"
    /\ storeCalls[2].failed
    /\ storeCalls[2].index = 2
    /\ storeCalls[1].path \in DOMAIN tasks
    /\ storeCalls[2].path \notin DOMAIN tasks

----------------------------------------------------------------------------
(* Claims about the server's request handlers and stop() *)

\* C31: no store write of a tool call happens after the call was answered
\* with the request-timeout error: once a request has the timeout outcome, its
\* tool handler writes nothing to the store.
C31_NoWriteAfterTimeoutAnswer ==
    [][\A r \in DOMAIN server.requests :
         server.requests[r].outcome = "timeout"
         => /\ ~(server.requests[r].tool = "save" /\ server'.requests[r].tool = "ok")
            /\ (server'.requests[r].tool # server.requests[r].tool => tasks' = tasks)]_vars

\* C32: isShuttingDown never goes back to false, and a tool call that arrives
\* while it is true is answered with the shutting-down error in its first
\* step, having reached neither the rate limiter nor the tool handler, and is
\* not in activeRequests then or later.
C32_RejectedWhileShuttingDown ==
    [][/\ server.isShuttingDown => server'.isShuttingDown
       /\ \A r \in DOMAIN server'.requests \ DOMAIN server.requests :
            (server.isShuttingDown /\ server'.requests[r].call.kind = "CallTool")
            => /\ server'.requests[r].pc = "answered"
               /\ server'.requests[r].outcome = "shutdown"
               /\ server'.requests[r].tool = "none"
               /\ r \notin server'.activeRequests
       /\ \A r \in DOMAIN server.requests :
            server.requests[r].outcome = "shutdown"
            => /\ server'.requests[r] = server.requests[r]
               /\ r \notin server'.activeRequests]_vars

\* C32 witness: a tool call was rejected as the server is shutting down, while
\* stop() waits for a request that is still active.
C32_Witness ==
    /\ server.isShuttingDown
    /\ \E r \in DOMAIN server.requests :
         /\ server.requests[r].outcome = "shutdown"
         /\ server.requests[r].answers = 1
    /\ \E c \in DOMAIN server.stops : server.stops[c] = "draining"
    /\ server.activeRequests # {}

\* C33: the server and the session system are closed only when no request is
\* active or the shutdown timeout has elapsed, and a caller of stop() has
\* control back only when that close has happened.
C33_StopReturnsAfterClose ==
    [][/\ server'.closes > server.closes
            => (server.activeRequests = {} \/ server.drainExpired)
       /\ \A c \in DOMAIN server'.stops :
            server'.stops[c] = "returned" => server'.closed]_vars

\* C34: over any stop() calls the server and the session system are closed at
\* most once, and every stop() call returns, also when a request stays
\* active for ever.
C34_StopClosesOnceAndTerminates ==
    /\ [](server.closes <= 1)
    /\ \A c \in (1..MaxLiveStopCalls) :
         (c \in DOMAIN server.stops)
            ~> (c \in DOMAIN server.stops /\ server.stops[c] = "returned")

\* C34 witness: two stop() calls have returned, the server was closed once at
\* the shutdown timeout, and a request is still active.
C34_Witness ==
    /\ \A c \in (1..MaxLiveStopCalls) : c \in DOMAIN server.stops /\ server.stops[c] = "returned"
    /\ server.closes = 1
    /\ server.closed
    /\ server.drainExpired
    /\ server.activeRequests # {}

\* C35: activeRequests holds exactly the ids of the requests that passed the
\* rate limiter and whose handler has not returned.
C35_ActiveRequestsAreRunningHandlers ==
    server.activeRequests
        = {r \in DOMAIN server.requests : server.requests[r].pc = "racing"}

\* C35 witness: every handler has returned, one with the timeout error and one
\* otherwise after passing the rate limiter, and activeRequests is empty.
C35_Witness ==
    /\ server.activeRequests = {}
    /\ \A r \in RequestIds :
         r \in DOMAIN server.requests /\ server.requests[r].pc = "answered"
    /\ \E r \in RequestIds : server.requests[r].outcome = "timeout"
    /\ \E r \in RequestIds : server.requests[r].outcome \in {"response", "toolError"}

\* C36: every tool call is answered, with the tool handler's response or with
\* an error, also when its tool handler never completes, and it is answered
\* once.
C36_EveryToolCallAnsweredOnce ==
    /\ [](\A r \in DOMAIN server.requests :
            /\ server.requests[r].answers <= 1
            /\ server.requests[r].pc = "answered" <=> server.requests[r].answers = 1
            /\ server.requests[r].pc = "answered"
                 => server.requests[r].outcome
                       \in {"response", "shutdown", "rateLimit", "toolError", "timeout"})
    /\ \A r \in (1..MaxLiveToolCalls) :
         (r \in DOMAIN server.requests /\ server.requests[r].call.kind = "CallTool")
            ~> (r \in DOMAIN server.requests /\ server.requests[r].pc = "answered")

\* C36 witness: a tool call whose tool handler never completes was answered
\* with the timeout error.
C36_Witness ==
    \E r \in DOMAIN server.requests :
        /\ server.requests[r].tool = "hung"
        /\ server.requests[r].pc = "answered"
        /\ server.requests[r].outcome = "timeout"
        /\ server.requests[r].answers = 1

----------------------------------------------------------------------------
(* Claims about cleanup() *)

\* the positions in the events of what `who` did as `what`
EventsOf(who, what) ==
    {i \in 1..Len(manager.events) :
        manager.events[i].who = who /\ manager.events[i].what = what}

\* C37: each cleanup() stops the memory monitor, then clears the caches, then
\* closes the storage, in that order; it closes the storage only after its
\* cache clearing succeeded; and once a cleanup() has completed the monitor
\* triggers no cache clear.
C37_CleanupOrder ==
    /\ \A c \in DOMAIN manager.cleanups :
         /\ Cardinality(EventsOf(c, "clearInterval")) = 1
         /\ Cardinality(EventsOf(c, "clearCache")) = 1
         /\ \A i \in EventsOf(c, "clearInterval") : \A j \in EventsOf(c, "clearCache") : i < j
         /\ \A k \in EventsOf(c, "close") :
              /\ EventsOf(c, "clearCacheFailed") = {}
              /\ \E j \in EventsOf(c, "cachesCleared") : j < k
              /\ \A j \in EventsOf(c, "clearCache") : j < k
         /\ \A d \in EventsOf(c, "completed") :
              /\ EventsOf(c, "close") # {}
              /\ \A m \in EventsOf(Monitor, "clearCache") : m < d
    /\ (\E c \in DOMAIN manager.cleanups : manager.cleanups[c] = "done")
          => ~manager.memoryMonitor

\* C37 witness: the monitor cleared the caches, then a cleanup() completed,
\* and another cleanup() failed at its cache clearing without closing the
\* storage.
C37_Witness ==
    /\ EventsOf(Monitor, "clearCache") # {}
    /\ \E c \in DOMAIN manager.cleanups : manager.cleanups[c] = "done"
    /\ \E c \in DOMAIN manager.cleanups :
         /\ manager.cleanups[c] = "failed"
         /\ EventsOf(c, "clearCacheFailed") # {}
         /\ EventsOf(c, "close") = {}

----------------------------------------------------------------------------
(* Claims about what updateTask and the reads leave alone *)

====
